---- MODULE Spec2Model ----
(***************************************************************************)
(* Model of the savanna-dashboard node group template wizard               *)
(* (savannadashboard/nodegroup_templates/workflows.py) and of the jobs     *)
(* table actions (savannadashboard/jobs/tables.py).                        *)
(*                                                                         *)
(* Python strings are TLA+ strings, Python lists are sequences, Python     *)
(* dicts are functions whose DOMAIN is the set of keys.  Context values    *)
(* are tagged (None / str / list) so that one dict can hold them all.      *)
(***************************************************************************)
EXTENDS Integers, Sequences, FiniteSets, TLC

(* ------------------------------ bounds --------------------------------- *)
\* number of wizard constructions (requests) followed in one behaviour
MaxRequests == 2
\* longest list of "processes" values in one POST
MaxSel == 2
\* largest number of rows selected for one batch delete
MaxRows == 2

(* -------------------------- Python values ------------------------------ *)
None == [t |-> "None", s |-> "", l |-> <<>>]
Str(x) == [t |-> "str", s |-> x, l |-> <<>>]
List(x) == [t |-> "list", s |-> "", l |-> x]
EmptyDict == [k \in {} |-> None]

\* d[k] = v on a dict
DictSet(d, k, v) == [x \in DOMAIN d \cup {k} |-> IF x = k THEN v ELSE d[x]]

\* the elements of a sequence
Range(q) == {q[i] : i \in 1..Len(q)}

(* -------------------------- Python strings ----------------------------- *)
\* s.startswith(p)
StartsWith(s, p) == Len(p) <= Len(s) /\ SubSeq(s, 1, Len(p)) = p

\* sub in s
Contains(s, sub) ==
    \E i \in 1..(Len(s) - Len(sub) + 1) : SubSeq(s, i, i + Len(sub) - 1) = sub

\* s.split(sep) for a one-character separator: the list of the parts
RECURSIVE Split(_, _)
Split(s, sep) ==
    IF \E i \in 1..Len(s) : SubSeq(s, i, i) = sep
    THEN LET i == CHOOSE j \in 1..Len(s) :
                     /\ SubSeq(s, j, j) = sep
                     /\ \A k \in 1..(j - 1) : SubSeq(s, k, k) # sep
         IN <<SubSeq(s, 1, i - 1)>> \o Split(SubSeq(s, i + 1, Len(s)), sep)
    ELSE <<s>>

(* ----------------- remote plugin metadata (the inputs) ----------------- *)
\* the plugins a request can name; "unknown" makes the remote call fail
PluginNames == {"vanilla", "hdp", "odd", "unknown"}

\* version_details.node_processes.items() of a plugin: <<service, processes>>
node_processes(plugin) ==
    CASE plugin = "vanilla" -> << <<"HDFS", <<"namenode", "datanode">> >>,
                                  <<"MapReduce", <<"tasktracker">> >> >>
      [] plugin = "hdp"     -> << <<"HDFS", <<"namenode">> >> >>
      [] plugin = "odd"     -> << <<"A:B", <<"p">> >>,
                                  <<"A", <<"q:r">> >> >>
      [] OTHER              -> << >>

\* hlps.get_targeted_node_group_configs(plugin, version).items():
\* <<service, parameters>>, a parameter being [name, default_value]
service_parameters(plugin) ==
    CASE plugin = "vanilla" ->
             << <<"HDFS", << [name |-> "dfs.replication", default_value |-> "3"],
                             [name |-> "heap", default_value |-> "1024"] >> >>,
                <<"MapReduce", << [name |-> "heap", default_value |-> "512"] >> >> >>
      [] plugin = "hdp"     -> << >>
      [] plugin = "odd"     ->
             << <<"A:B", << >> >>,
                <<"A", << [name |-> "heap", default_value |-> "256"] >> >> >>
      [] OTHER              -> << >>

(* ---------------------------- the state -------------------------------- *)
VARIABLES
    pc,               \* where the current request stands
    gen,              \* number of ConfigureNodegroupTemplate constructions so far
    plugin,           \* whelpers.get_plugin_and_hadoop_version(request)[0]
    cls_registry,     \* ConfigureNodegroupTemplate._cls_registry (class level)
    steps,            \* self.steps of the workflow instance
    defaults,         \* self.defaults
    depends_on,       \* self.depends_on
    post,             \* request.POST
    context,          \* self.context
    has_errors,       \* the steps (indices into steps) with has_errors = True
    checked,          \* the steps whose action.is_valid() was called by is_valid
    enabled_services, \* the local enabled_services of is_valid
    validate_calls,   \* calls of self.validate(self.context)
    create_calls,     \* argument lists of savanna.node_group_templates.create
    handle_calls,     \* calls of exceptions.handle(request)
    ret,              \* outcome of the last operation
    remote,           \* how the last call of the remote API ended
    selected,         \* the row identifiers selected for the batch delete
    rows,             \* those of them not yet handed to DeleteJob.action
    delete_calls      \* arguments of savanna.jobs.delete, in call order

vars == <<pc, gen, plugin, cls_registry, steps, defaults, depends_on, post,
          context, has_errors, checked, enabled_services, validate_calls,
          create_calls, handle_calls, ret, remote, selected, rows,
          delete_calls>>

\* an operation that has not run / returned value / raised exception
NoRet == [op |-> "", val |-> "", exc |-> "", keys |-> <<>>]
Returned(op, val) == [op |-> op, val |-> val, exc |-> "", keys |-> <<>>]
Raised(op, exc, keys) == [op |-> op, val |-> "raise", exc |-> exc, keys |-> keys]

NoPost == [bound |-> FALSE, processes |-> <<>>, nodegroup_name |-> "",
           conf |-> EmptyDict, invalid |-> {}]

(* --------------- ConfigureNodegroupTemplate.__init__ ------------------- *)
\* whelpers._create_step_action(service, ...): a new step class per call,
\* tagged with process_name = service; gen tells the classes of different
\* constructions apart
_create_step_action(service, parameters, g) ==
    [cls |-> "service", has_tag |-> TRUE, process_name |-> service,
     parameters |-> parameters, gen |-> g]

\* the GeneralConfig step of default_steps: it carries no process_name
GeneralConfigStep ==
    [cls |-> "GeneralConfig", has_tag |-> FALSE, process_name |-> "",
     parameters |-> <<>>, gen |-> 0]

\* Workflow.register(step_class) on a registry
register(registry, step) == registry \cup {step}

\* the statement that opens __init__: the registry the loop starts from
MutResetRegistry(registry) == registry
ResetRegistry(registry) == {}

\* the inner loop of __init__ over one service's parameters
RECURSIVE MutCaptureParams(_, _, _)
MutCaptureParams(d, service, parameters) ==
    IF parameters = <<>> THEN d
    ELSE LET param == Head(parameters)
             d1 == DictSet(d, service, EmptyDict)
             d2 == DictSet(d1, service,
                           DictSet(d1[service], param.name, param.default_value))
         IN MutCaptureParams(d2, service, Tail(parameters))

RECURSIVE CaptureParams(_, _, _)
CaptureParams(d, service, parameters) ==
    IF parameters = <<>> THEN d
    ELSE LET param == Head(parameters)
             d1 == IF service \notin DOMAIN d
                   THEN DictSet(d, service, EmptyDict) ELSE d
             d2 == DictSet(d1, service,
                           DictSet(d1[service], param.name, param.default_value))
         IN CaptureParams(d2, service, Tail(parameters))

\* the outer loop of __init__ over service_parameters.items():
\* [registry, defaults, steps] after the loop
RECURSIVE InitLoop(_, _, _)
InitLoop(acc, items, g) ==
    IF items = <<>> THEN acc
    ELSE LET service == Head(items)[1]
             parameters == Head(items)[2]
             step == _create_step_action(service, parameters, g)
         IN InitLoop([registry |-> register(acc.registry, step),
                      defaults |-> CaptureParams(acc.defaults, service, parameters),
                      order |-> Append(acc.order, step)],
                     Tail(items), g)

\* the context keys a request can seed and a workflow can depend on
SeedKeys == {"plugin_name", "hadoop_version"}
SeedContext(keys, p) ==
    [k \in keys |-> IF k = "plugin_name" THEN Str(p) ELSE Str("1.2.1")]

\* the order in which the workflow lists the registered step classes
RegisteredSteps(registry, order) == SelectSeq(order, LAMBDA st : st \in registry)

\* __init__ for a request naming plugin p, for a workflow whose steps depend on
\* the keys deps, with a context_seed holding the keys seed (the base class
\* keeps of the seed only the keys the workflow depends on or contributes)
Construct ==
    /\ pc = "idle"
    /\ gen < MaxRequests
    /\ \E p \in PluginNames, deps \in {{}, SeedKeys} : \E seed \in SUBSET deps :
         LET reset == ResetRegistry(cls_registry)
             done == InitLoop([registry |-> reset, defaults |-> EmptyDict,
                               order |-> <<>>],
                              service_parameters(p), gen + 1)
         IN /\ gen' = gen + 1
            /\ plugin' = p
            /\ IF p = "unknown"
               THEN \* get_targeted_node_group_configs raises: __init__ is left
                    \* after the reset and before any registration
                    /\ cls_registry' = reset
                    /\ pc' = "failed"
                    /\ ret' = Raised("__init__", "APIException", <<>>)
                    /\ UNCHANGED <<steps, defaults, depends_on, context>>
               ELSE /\ cls_registry' = done.registry
                    /\ defaults' = done.defaults
                    /\ steps' = <<GeneralConfigStep>>
                                  \o RegisteredSteps(done.registry, done.order)
                    /\ depends_on' = deps
                    /\ context' = SeedContext(seed, p)
                    /\ pc' = "constructed"
                    /\ ret' = Returned("__init__", "None")
    /\ UNCHANGED <<post, has_errors, checked, enabled_services, validate_calls,
                   create_calls, handle_calls, remote, selected, rows,
                   delete_calls>>

(* --------------------- GeneralConfigAction.__init__ -------------------- *)
\* the loop over node_processes.items(): the values of process_choices
RECURSIVE ChoicesOf(_, _)
ChoicesOf(service, processes) ==
    IF processes = <<>> THEN <<>>
    ELSE <<service \o ":" \o Head(processes)>> \o ChoicesOf(service, Tail(processes))

RECURSIVE process_choices(_)
process_choices(items) ==
    IF items = <<>> THEN <<>>
    ELSE ChoicesOf(Head(items)[1], Head(items)[2]) \o process_choices(Tail(items))

\* the declared fields of GeneralConfigAction, "processes", "plugin_name" and
\* "hadoop_version" added by __init__, and one general node parameter
\* (hlps.get_general_node_group_configs) whose name holds "hidden" inside
GeneralFields ==
    {"nodegroup_name", "description", "flavor", "storage", "volumes_per_node",
     "volume_size", "hidden_configure_field", "processes", "plugin_name",
     "hadoop_version", "dfs.hidden.dirs"}

\* GeneralConfigAction(...).is_valid(): the form is bound, the required
\* nodegroup_name is given, and "processes" (required=True, choices =
\* process_choices) holds at least one value and only offered values
GeneralFormValid(p, pst) ==
    /\ pst.bound
    /\ pst.nodegroup_name # ""
    /\ pst.processes # <<>>
    /\ Range(pst.processes) \subseteq Range(process_choices(node_processes(p)))

\* what the workflow hands to GeneralConfig.contribute as data: the form's
\* cleaned_data when the form is valid, else request.POST, whose items()
\* gives the last value of a multi-valued key and no key without a value
FieldValue(f, p, pst) ==
    CASE f = "nodegroup_name"   -> Str(pst.nodegroup_name)
      [] f = "description"      -> Str("")
      [] f = "flavor"           -> Str("m1.small")
      [] f = "storage"          -> Str("ephemeral_drive")
      [] f = "volumes_per_node" -> Str("1")
      [] f = "volume_size"      -> Str("10")
      [] f = "plugin_name"      -> Str(p)
      [] f = "hadoop_version"   -> Str("1.2.1")
      [] f = "processes"        ->
             IF GeneralFormValid(p, pst) THEN List(pst.processes)
             ELSE Str(pst.processes[Len(pst.processes)])
      [] OTHER                  -> Str("x")

GeneralData(p, pst) ==
    LET fields == IF pst.processes = <<>> /\ ~GeneralFormValid(p, pst)
                  THEN GeneralFields \ {"processes"} ELSE GeneralFields
    IN [f \in fields |-> FieldValue(f, p, pst)]

(* ------------------------ GeneralConfig.contribute --------------------- *)
\* the test that makes the loop skip a field
MutSkipField(k) == StartsWith(k, "hidden")
SkipField(k) == Contains(k, "hidden")

\* the key the loop stores a field under
GeneralKey(k) == "general_" \o k

\* the loop over data.items()
CopyFields(data, ctx) ==
    LET kept == {k \in DOMAIN data : ~SkipField(k)}
        written == {GeneralKey(k) : k \in kept}
    IN [x \in DOMAIN ctx \cup written |->
          IF x \in written
          THEN data[CHOOSE k \in kept : GeneralKey(k) = x]
          ELSE ctx[x]]

\* contribute(data, context), getlist being post.getlist("processes")
GeneralContribute(data, ctx, getlist) ==
    DictSet(CopyFields(data, ctx), "general_processes", List(getlist))

(* ------------------- the steps' part of one POST ----------------------- *)
\* the context key of a service parameter
ConfKey(service, name) == "CONF:" \o service \o ":" \o name

\* the service parameter keys of the steps of a workflow
ConfKeys(sts) ==
    UNION {{ConfKey(sts[i].process_name, sts[i].parameters[j].name) :
               j \in 1..Len(sts[i].parameters)} : i \in 1..Len(sts)}

\* the sequences over S of length at most n
SeqsUpTo(S, n) == UNION {[1..k -> S] : k \in 0..n}

\* the "processes" values a POST can carry: offered choices and other text
Entries(p) == Range(process_choices(node_processes(p))) \cup {"junk"}

\* the POSTs the workflow of plugin p with steps sts can receive: conf holds
\* the submitted service parameter values, invalid the tags of the service
\* steps whose form does not validate
Posts(p, sts) ==
    {[bound |-> TRUE, processes |-> ps, nodegroup_name |-> n,
      conf |-> [k \in ks |-> Str("9")], invalid |-> bad] :
        ps \in SeqsUpTo(Entries(p), MaxSel),
        n \in {"", "ng1"},
        ks \in SUBSET ConfKeys(sts),
        bad \in SUBSET {sts[i].process_name : i \in 2..Len(sts)}}

\* contribute of the service steps: the submitted values, under their keys
ServiceContribute(conf, ctx) ==
    [x \in DOMAIN ctx \cup DOMAIN conf |->
       IF x \in DOMAIN conf THEN conf[x] ELSE ctx[x]]

\* GeneralConfig.contribute(data, context), run by the base class on the data
\* of a POST
contribute ==
    /\ pc = "constructed"
    /\ \E pst \in Posts(plugin, steps) :
         /\ post' = pst
         /\ context' = GeneralContribute(GeneralData(plugin, pst), context,
                                         pst.processes)
    /\ pc' = "general"
    /\ ret' = Returned("contribute", "None")
    /\ UNCHANGED <<gen, plugin, cls_registry, steps, defaults, depends_on,
                   has_errors, checked, enabled_services, validate_calls,
                   create_calls, handle_calls, remote, selected, rows,
                   delete_calls>>

\* then the contribute of the service steps
ServiceStepsContribute ==
    /\ pc = "general"
    /\ context' = ServiceContribute(post.conf, context)
    /\ pc' = "contributed"
    /\ UNCHANGED <<gen, plugin, cls_registry, steps, defaults, depends_on, post,
                   has_errors, checked, enabled_services, validate_calls,
                   create_calls, handle_calls, ret, remote, selected, rows,
                   delete_calls>>

(* ------------------ ConfigureNodegroupTemplate.is_valid ---------------- *)
\* iterating a context value: a list gives its items, a str its characters
Iter(v) == IF v.t = "list" THEN v.l
           ELSE [i \in 1..Len(v.s) |-> SubSeq(v.s, i, i)]

\* str(getattr(step, "process_name", None))
TagStr(step) == IF step.has_tag THEN step.process_name ELSE "None"

\* str(process_name).split(":")[0]
ServiceOf(process_name) == Split(process_name, ":")[1]

\* enabled_services after the loop over checked_steps
EnabledServices(ctx) ==
    LET checked_steps == IF "general_processes" \in DOMAIN ctx
                         THEN Iter(ctx["general_processes"]) ELSE <<>>
    IN {ServiceOf(e) : e \in Range(checked_steps)}

\* the condition under which the loop over self.steps does not skip a step
MutStepEnabled(step, enabled) == TRUE
MutBaseSkipped(step, enabled) == TagStr(step) \in enabled
StepEnabled(step, enabled) ==
    ~(TagStr(step) \notin enabled /\ step.cls # "GeneralConfig")

\* step.action.is_valid()
ActionIsValid(step, p, pst) ==
    IF step.cls = "GeneralConfig" THEN GeneralFormValid(p, pst)
    ELSE pst.bound /\ step.process_name \notin pst.invalid

\* the loop over self.steps from step i on; acc = [steps_valid, has_errors, checked]
RECURSIVE MutValidateSteps(_, _, _, _, _, _)
MutValidateSteps(i, sts, enabled, p, pst, acc) ==
    IF i > Len(sts) THEN acc
    ELSE IF ~StepEnabled(sts[i], enabled)
         THEN MutValidateSteps(i + 1, sts, enabled, p, pst, acc)
         ELSE IF ~ActionIsValid(sts[i], p, pst)
              THEN [steps_valid |-> FALSE,
                    has_errors |-> acc.has_errors \cup {i},
                    checked |-> acc.checked \cup {i}]
              ELSE MutValidateSteps(i + 1, sts, enabled, p, pst,
                       [acc EXCEPT !.checked = acc.checked \cup {i}])

RECURSIVE ValidateSteps(_, _, _, _, _, _)
ValidateSteps(i, sts, enabled, p, pst, acc) ==
    IF i > Len(sts) THEN acc
    ELSE IF ~StepEnabled(sts[i], enabled)
         THEN ValidateSteps(i + 1, sts, enabled, p, pst, acc)
         ELSE IF ~ActionIsValid(sts[i], p, pst)
              THEN ValidateSteps(i + 1, sts, enabled, p, pst,
                       [steps_valid |-> FALSE,
                        has_errors |-> acc.has_errors \cup {i},
                        checked |-> acc.checked \cup {i}])
              ELSE ValidateSteps(i + 1, sts, enabled, p, pst,
                       [acc EXCEPT !.checked = acc.checked \cup {i}])

\* self.validate(context): the base class's, which this workflow keeps
validate(ctx) == TRUE

\* the orders in which ", ".join(missing) can list a set
Orders(S) == {q \in [1..Cardinality(S) -> S] : Range(q) = S}

\* the set is_valid raises for
MutMissing(deps, ctx) == {}
Missing(deps, ctx) == deps \ DOMAIN ctx

\* is_valid(), which the view calls on the workflow built from a POST
is_valid ==
    /\ pc = "contributed"
    /\ pc' = "validated"
    /\ LET missing == Missing(depends_on, context)
           enabled == EnabledServices(context)
           done == ValidateSteps(1, steps, enabled, plugin, post,
                                 [steps_valid |-> TRUE, has_errors |-> has_errors,
                                  checked |-> {}])
       IN IF missing # {}
          THEN /\ \E q \in Orders(missing) :
                    ret' = Raised("is_valid", "WorkflowValidationError", q)
               /\ UNCHANGED <<has_errors, checked, enabled_services, validate_calls>>
          ELSE /\ enabled_services' = enabled
               /\ has_errors' = done.has_errors
               /\ checked' = done.checked
               /\ IF ~done.steps_valid
                  THEN /\ ret' = Returned("is_valid", "False")
                       /\ UNCHANGED validate_calls
                  ELSE /\ validate_calls' = validate_calls + 1
                       /\ ret' = Returned("is_valid",
                                          IF validate(context) THEN "True" ELSE "False")
    /\ UNCHANGED <<gen, plugin, cls_registry, steps, defaults, depends_on, post,
                   context, create_calls, handle_calls, remote, selected, rows,
                   delete_calls>>

(* ------------------- ConfigureNodegroupTemplate.handle ----------------- *)
\* whelpers.parse_configs_from_context(context, defaults): per service, every
\* parameter with the submitted value, or the captured default when the
\* context holds none
parse_configs_from_context(ctx, dflt) ==
    [service \in DOMAIN dflt |->
       [name \in DOMAIN dflt[service] |->
          IF ConfKey(service, name) \in DOMAIN ctx
          THEN ctx[ConfKey(service, name)].s
          ELSE dflt[service][name]]]

\* str(service_process).split(":")[1]
ProcessOf(service_process) == Split(service_process, ":")[2]

\* the loop that fills processes
ProcessList(entries) == [i \in 1..Len(entries) |-> ProcessOf(entries[i])]

\* the exception the try block raises before it reaches create, "" if none
BuildError(ctx) ==
    IF "general_processes" \notin DOMAIN ctx THEN "KeyError"
    ELSE IF \E e \in Range(Iter(ctx["general_processes"])) : Len(Split(e, ":")) < 2
         THEN "IndexError"
         ELSE IF {"general_nodegroup_name", "general_description",
                  "general_flavor"} \subseteq DOMAIN ctx
              THEN "" ELSE "KeyError"

\* the arguments of savanna.node_group_templates.create
CreateArgs(ctx, p, dflt) ==
    [name |-> ctx["general_nodegroup_name"].s,
     plugin |-> p,
     hadoop_version |-> "1.2.1",
     description |-> ctx["general_description"].s,
     flavor |-> ctx["general_flavor"].s,
     processes |-> ProcessList(Iter(ctx["general_processes"])),
     configs |-> parse_configs_from_context(ctx, dflt)]

\* the calls of create one run of handle makes, given the calls so far
MutCreate(calls, args) == calls \o <<args, args>>
Create(calls, args) == Append(calls, args)

\* the except clause: exceptions.handle(request) runs outside the try block, so
\* what it raises leaves handle (horizon's handler raises again the exceptions
\* it does not class as recoverable); when it returns, handle returns False
Except(exc) ==
    /\ handle_calls' = handle_calls + 1
    /\ \E reraised \in BOOLEAN :
         ret' = IF reraised THEN Raised("handle", exc, <<>>)
                ELSE Returned("handle", "False")

\* handle(request, context), which the workflow's finalize calls; the view
\* finalizes only a workflow whose is_valid returned True
handle ==
    /\ pc = "validated"
    /\ ret = Returned("is_valid", "True")
    /\ pc' = "handled"
    /\ IF BuildError(context) # ""
       THEN /\ Except(BuildError(context))
            /\ UNCHANGED <<create_calls, remote>>
       ELSE /\ create_calls' = Create(create_calls,
                                      CreateArgs(context, plugin, defaults))
            /\ \E ok \in BOOLEAN :
                 IF ok
                 THEN /\ remote' = "ok"
                      /\ ret' = Returned("handle", "True")
                      /\ UNCHANGED handle_calls
                 ELSE /\ remote' = "failed"
                      /\ Except("APIException")
    /\ UNCHANGED <<gen, plugin, cls_registry, steps, defaults, depends_on, post,
                   context, has_errors, checked, enabled_services,
                   validate_calls, selected, rows, delete_calls>>

(* --------------------------- SelectPlugin ------------------------------ *)
\* the data SelectPlugin.contribute can receive: with or without plugin_name,
\* with or without the version field of the plugin
SelectData ==
    {[k \in ks |-> IF k = "plugin_name" THEN Str("vanilla") ELSE Str("1.2.1")] :
        ks \in SUBSET {"plugin_name", "vanilla_version", "hidden_create_field"}}

\* data.get(key, None)
Get(data, key) == IF key \in DOMAIN data THEN data[key] ELSE None

\* the keys SelectPlugin.contribute stores under
SelectContributes == {"plugin_name", "hadoop_version"}

\* SelectPlugin.contribute(data, context): the base class stores data.get(key)
\* for every key of contributes when data is not empty, then the two
\* assignments; plugin_name None makes the second one raise TypeError
SelectPluginContribute ==
    /\ pc = "idle"
    /\ pc' = "selected"
    /\ \E data \in SelectData :
         LET base == IF DOMAIN data = {} THEN context
                     ELSE [k \in DOMAIN context \cup SelectContributes |->
                             IF k \in SelectContributes THEN Get(data, k)
                             ELSE context[k]]
             named == DictSet(base, "plugin_name", Get(data, "plugin_name"))
         IN IF named["plugin_name"] = None
            THEN /\ context' = named
                 /\ ret' = Raised("contribute", "TypeError", <<>>)
            ELSE /\ context' = DictSet(named, "hadoop_version",
                                  Get(data, named["plugin_name"].s \o "_version"))
                 /\ ret' = Returned("contribute", "None")
    /\ UNCHANGED <<gen, plugin, cls_registry, steps, defaults, depends_on, post,
                   has_errors, checked, enabled_services, validate_calls,
                   create_calls, handle_calls, remote, selected, rows,
                   delete_calls>>

(* ------------------------------ DeleteJob ------------------------------ *)
\* the identifiers of the rows of the jobs table
JobIds == {"j1", "j2", "j3"}

\* the batch action is submitted with the selected rows
SelectRows ==
    /\ pc = "idle"
    /\ pc' = "deleting"
    /\ \E sel \in SeqsUpTo(JobIds, MaxRows) :
         /\ sel # <<>>
         /\ selected' = sel
         /\ rows' = sel
    /\ ret' = NoRet
    /\ UNCHANGED <<gen, plugin, cls_registry, steps, defaults, depends_on, post,
                   context, has_errors, checked, enabled_services,
                   validate_calls, create_calls, handle_calls, remote,
                   delete_calls>>

\* savanna.jobs.delete(obj_id): the calls one run of action makes
MutJobsDelete(calls, obj_id) == calls \o <<obj_id, obj_id>>
JobsDelete(calls, obj_id) == Append(calls, obj_id)

\* what action does when the remote call fails
DeleteFailed == Raised("action", "APIException", <<>>)

\* DeleteJob.action(request, obj_id), called by the batch action for the next
\* selected row
action ==
    /\ pc = "deleting"
    /\ rows # <<>>
    /\ delete_calls' = JobsDelete(delete_calls, Head(rows))
    /\ rows' = Tail(rows)
    /\ \E ok \in BOOLEAN :
         /\ remote' = IF ok THEN "ok" ELSE "failed"
         /\ ret' = IF ok THEN Returned("action", "None") ELSE DeleteFailed
    /\ UNCHANGED <<pc, gen, plugin, cls_registry, steps, defaults, depends_on,
                   post, context, has_errors, checked, enabled_services,
                   validate_calls, create_calls, handle_calls, selected>>

(* --------------------------- the requests ------------------------------ *)
\* the request is over: what belongs to it is dropped, the class-level
\* registry stays
Finish ==
    /\ \/ pc \in {"failed", "validated", "handled", "selected"}
       \/ pc = "deleting" /\ rows = <<>>
    /\ pc' = "idle"
    /\ plugin' = ""
    /\ steps' = <<>>
    /\ defaults' = EmptyDict
    /\ depends_on' = {}
    /\ post' = NoPost
    /\ context' = EmptyDict
    /\ has_errors' = {}
    /\ checked' = {}
    /\ enabled_services' = {}
    /\ validate_calls' = 0
    /\ create_calls' = <<>>
    /\ handle_calls' = 0
    /\ ret' = NoRet
    /\ remote' = ""
    /\ selected' = <<>>
    /\ rows' = <<>>
    /\ delete_calls' = <<>>
    /\ UNCHANGED <<gen, cls_registry>>

Init ==
    /\ pc = "idle"
    /\ gen = 0
    /\ plugin = ""
    /\ cls_registry = {}
    /\ steps = <<>>
    /\ defaults = EmptyDict
    /\ depends_on = {}
    /\ post = NoPost
    /\ context = EmptyDict
    /\ has_errors = {}
    /\ checked = {}
    /\ enabled_services = {}
    /\ validate_calls = 0
    /\ create_calls = <<>>
    /\ handle_calls = 0
    /\ ret = NoRet
    /\ remote = ""
    /\ selected = <<>>
    /\ rows = <<>>
    /\ delete_calls = <<>>

Next ==
    \/ Construct
    \/ contribute
    \/ ServiceStepsContribute
    \/ is_valid
    \/ handle
    \/ SelectPluginContribute
    \/ SelectRows
    \/ action
    \/ Finish

Spec == Init /\ [][Next]_vars

(* ============================ the claims ============================== *)
\* is_valid has run and did not raise
Validated == pc = "validated" /\ ret.op = "is_valid" /\ ret.val # "raise"

\* the entries of general_processes in the context, none when the key is absent
SelectedEntries ==
    IF "general_processes" \in DOMAIN context
    THEN context["general_processes"].l ELSE <<>>

\* x is what stands in entry e before its first ":" (all of e when it has none)
PrefixBeforeColon(x, e) ==
    /\ ~Contains(x, ":")
    /\ StartsWith(e, x)
    /\ Len(x) = Len(e) \/ SubSeq(e, Len(x) + 1, Len(x) + 1) = ":"

\* step i is the base step or a step whose service tag a selected entry names
EnabledStep(i) ==
    \/ steps[i].cls = "GeneralConfig"
    \/ /\ steps[i].has_tag
       /\ \E e \in Range(SelectedEntries) : PrefixBeforeColon(steps[i].process_name, e)

\* the enabled steps whose action does not validate
FailingEnabled ==
    {i \in 1..Len(steps) : EnabledStep(i) /\ ~ActionIsValid(steps[i], plugin, post)}

\* C1: when is_valid gets past the required-keys check, enabled_services is
\* exactly the set of the prefixes before the first ":" of the selected
\* entries; a step's action is validated if and only if the step is the
\* GeneralConfig step or its process_name tag is in enabled_services; a step
\* that is skipped is not marked has_errors.
C1_EnabledServicesExact ==
    Validated =>
        /\ \A x \in enabled_services :
              \E e \in Range(SelectedEntries) : PrefixBeforeColon(x, e)
        /\ \A e \in Range(SelectedEntries) :
              \E x \in enabled_services : PrefixBeforeColon(x, e)
        /\ \A i \in 1..Len(steps) :
              i \in checked <=>
                 \/ steps[i].cls = "GeneralConfig"
                 \/ steps[i].has_tag /\ steps[i].process_name \in enabled_services
        /\ has_errors \subseteq checked

\* C1 witness: "HDFS:namenode" alone is selected, the HDFS step is validated
\* and the MapReduce step, whose form is invalid, is skipped and unmarked
C1_Witness ==
    /\ Validated
    /\ SelectedEntries = <<"HDFS:namenode">>
    /\ enabled_services = {"HDFS"}
    /\ \E i, j \in 1..Len(steps) :
          /\ steps[i].process_name = "HDFS" /\ i \in checked
          /\ steps[j].process_name = "MapReduce" /\ j \notin checked
          /\ ~ActionIsValid(steps[j], plugin, post)
          /\ j \notin has_errors

\* C2: a submission with no selected process (general_processes empty, or
\* absent from the context) is never valid: is_valid does not return True.
C2_NoProcessNeverValid ==
    (pc = "validated" /\ ret.op = "is_valid" /\ SelectedEntries = <<>>)
        => ret.val # "True"

\* C2 witness: is_valid returned False for a POST without processes while
\* service steps are registered, none of them enabled and none of them invalid
C2_Witness ==
    /\ Validated
    /\ post.bound /\ "general_processes" \in DOMAIN context
    /\ SelectedEntries = <<>>
    /\ post.nodegroup_name # "" /\ post.invalid = {}
    /\ Len(steps) > 1
    /\ ret.val = "False"

\* C3: with every required key present, if an enabled step fails its action
\* validation is_valid returns False without raising and without calling
\* validate, and has_errors holds every enabled step that failed; if no
\* enabled step fails, the steps that are not enabled do not matter: validate
\* is called once and its result is returned.
C3_EnabledFailureInvalid ==
    Validated =>
        /\ FailingEnabled # {} =>
              /\ ret.val = "False"
              /\ validate_calls = 0
              /\ has_errors = FailingEnabled
        /\ FailingEnabled = {} =>
              /\ validate_calls = 1
              /\ has_errors = {}
              /\ ret.val = (IF validate(context) THEN "True" ELSE "False")

\* C3 witness: two enabled steps failed and both are marked
C3_Witness ==
    /\ Validated
    /\ Cardinality(FailingEnabled) >= 2
    /\ has_errors = FailingEnabled
    /\ ret.val = "False"

\* C3 second witness: a step that is not enabled has an invalid form and the
\* submission is valid all the same
C3_WitnessDisabled ==
    /\ Validated
    /\ ret.val = "True"
    /\ \E i \in 1..Len(steps) :
          ~EnabledStep(i) /\ ~ActionIsValid(steps[i], plugin, post)

\* C4: if a key of depends_on is absent from the context, is_valid raises a
\* WorkflowValidationError that lists exactly the missing keys, each once,
\* before any step's action is validated: no step is marked has_errors and
\* the context is unchanged; if no key is missing it raises no such error.
C4_MissingKeysRaise ==
    [][(pc = "contributed" /\ pc' = "validated") =>
         LET missing == depends_on \ DOMAIN context
         IN /\ missing # {} =>
                 /\ ret'.val = "raise"
                 /\ ret'.exc = "WorkflowValidationError"
                 /\ Range(ret'.keys) = missing
                 /\ Len(ret'.keys) = Cardinality(missing)
                 /\ checked' = {} /\ has_errors' = {}
                 /\ validate_calls' = 0
                 /\ context' = context
            /\ missing = {} => ret'.val # "raise"]_vars

\* C4 witness: both keys were missing and the error lists the two, while the
\* POST held an invalid service step form that no one looked at
C4_Witness ==
    /\ pc = "validated"
    /\ ret.exc = "WorkflowValidationError"
    /\ Range(ret.keys) = {"plugin_name", "hadoop_version"}
    /\ post.invalid # {}
    /\ has_errors = {} /\ checked = {}

\* handle met an exception inside its try block
HandleCaught == BuildError(context) # "" \/ remote = "failed"

\* C5 as claimed: handle calls create at most once, returns True exactly when
\* the create call completed, and for every exception of the try block calls
\* the error handler once, returns False and lets no exception escape.
C5_NoExceptionEscapes ==
    pc = "handled" =>
        /\ Len(create_calls) <= 1
        /\ ret.val = "True" <=> remote = "ok"
        /\ HandleCaught => handle_calls = 1 /\ ret.val = "False"
        /\ ret.val # "raise"

\* C5 as amended: handle calls create at most once and never again; it
\* returns True exactly when the create call completed without an exception;
\* for every exception of the try block it calls the error handler exactly
\* once and returns False if the handler returns; the only exception that
\* leaves handle is one the error handler itself raises.
C5_HandleReportsOnce ==
    pc = "handled" =>
        /\ Len(create_calls) <= 1
        /\ ret.val = "True" <=> remote = "ok"
        /\ ret.val = "True" => Len(create_calls) = 1 /\ handle_calls = 0
        /\ HandleCaught => handle_calls = 1 /\ ret.val \in {"False", "raise"}
        /\ ~HandleCaught => handle_calls = 0
        /\ ret.val = "raise" => handle_calls = 1

\* C5 witness: the create call failed, the handler was called once and
\* returned, and handle returned False
C5_Witness ==
    /\ pc = "handled"
    /\ remote = "failed"
    /\ Len(create_calls) = 1
    /\ handle_calls = 1
    /\ ret = Returned("handle", "False")

\* the services of the metadata of plugin p
MetadataServices(p) == {service_parameters(p)[i][1] : i \in 1..Len(service_parameters(p))}

\* C6: after the k-th construction the class-level registry holds exactly one
\* step per service of the k-th request's metadata, all of them registered by
\* that construction; a construction that fails leaves it empty.
C6_RegistryPerConstruction ==
    /\ pc \in {"constructed", "general", "contributed", "validated", "handled"} =>
          /\ \A st \in cls_registry : st.gen = gen
          /\ {st.process_name : st \in cls_registry} = MetadataServices(plugin)
          /\ Cardinality(cls_registry) = Cardinality(MetadataServices(plugin))
          /\ Range(steps) = cls_registry \cup {GeneralConfigStep}
    /\ pc = "failed" => cls_registry = {}

\* C6 witness: the second construction has run and registered two steps
C6_Witness ==
    /\ pc = "constructed"
    /\ gen = 2
    /\ Cardinality(cls_registry) = 2

\* C7: action calls jobs.delete once per row it is given, with the row's
\* identifier: the calls made are the selected rows handled so far, in order,
\* nothing else; when the remote call fails the exception leaves action.
C7_DeleteOncePerRow ==
    pc = "deleting" =>
        /\ delete_calls \o rows = selected
        /\ (ret.op = "action" /\ remote = "failed") =>
               ret.val = "raise" /\ ret.exc = "APIException"
        /\ (ret.op = "action" /\ remote = "ok") => ret.val = "None"

\* C7 witness: two rows were selected, both handed to action, the last remote
\* call failed
C7_Witness ==
    /\ pc = "deleting"
    /\ Len(selected) = 2 /\ rows = <<>>
    /\ delete_calls = selected
    /\ ret.val = "raise"

\* C8: the captured defaults hold the default_value of every parameter of
\* every service step registered at construction; the config mapping handle
\* sends carries, for each of these parameters, the submitted value when the
\* context holds one and the captured default when it holds none.
C8_DefaultsFillUnset ==
    /\ pc \in {"constructed", "general", "contributed", "validated", "handled"} =>
          \A i \in 1..Len(steps) : \A j \in 1..Len(steps[i].parameters) :
             LET service == steps[i].process_name
                 param == steps[i].parameters[j]
             IN /\ service \in DOMAIN defaults
                /\ param.name \in DOMAIN defaults[service]
                /\ defaults[service][param.name] = param.default_value
    /\ (pc = "handled" /\ create_calls # <<>>) =>
          \A i \in 1..Len(steps) : \A j \in 1..Len(steps[i].parameters) :
             LET service == steps[i].process_name
                 param == steps[i].parameters[j]
                 key == ConfKey(service, param.name)
                 configs == create_calls[1].configs
             IN /\ service \in DOMAIN configs
                /\ param.name \in DOMAIN configs[service]
                /\ configs[service][param.name] =
                      IF key \in DOMAIN context THEN context[key].s
                      ELSE param.default_value

\* C8 witness: create was called for the vanilla plugin with one HDFS
\* parameter submitted and the other one not
C8_Witness ==
    /\ pc = "handled" /\ create_calls # <<>>
    /\ ConfKey("HDFS", "heap") \in DOMAIN context
    /\ ConfKey("HDFS", "dfs.replication") \notin DOMAIN context
    /\ create_calls[1].configs["HDFS"]["heap"] = "9"
    /\ create_calls[1].configs["HDFS"]["dfs.replication"] = "3"

\* C9: GeneralConfig.contribute adds and changes only keys that start with
\* "general_": a field whose name does not hold "hidden" is stored under
\* "general_" + name, a field whose name holds "hidden" is not stored,
\* general_processes is the POST list of "processes", and every key without
\* the prefix keeps its value; SelectPlugin.contribute writes no key with the
\* prefix.
C9_ContributeNamespaced ==
    [][/\ (pc = "constructed" /\ pc' = "general") =>
            LET data == GeneralData(plugin, post')
            IN /\ \A k \in DOMAIN context :
                     ~StartsWith(k, "general_") =>
                         k \in DOMAIN context' /\ context'[k] = context[k]
               /\ \A k \in DOMAIN context' \ DOMAIN context :
                     StartsWith(k, "general_")
               /\ \A f \in DOMAIN data :
                     IF Contains(f, "hidden")
                     THEN ("general_" \o f) \notin DOMAIN context'
                     ELSE /\ ("general_" \o f) \in DOMAIN context'
                          /\ f # "processes" =>
                                context'["general_" \o f] = data[f]
               /\ "general_processes" \in DOMAIN context'
               /\ context'["general_processes"] = List(post'.processes)
       /\ (pc = "idle" /\ pc' = "selected") =>
            \A k \in DOMAIN context' :
               (k \notin DOMAIN context \/ context'[k] # context[k])
                   => ~StartsWith(k, "general_")]_vars

\* C9 witness: GeneralConfig.contribute ran on a context that held
\* plugin_name, with an invalid form whose data gave "processes" as one value
C9_Witness ==
    /\ pc = "general"
    /\ "plugin_name" \in DOMAIN context
    /\ "general_dfs.hidden.dirs" \notin DOMAIN context
    /\ Len(post.processes) = 2
    /\ ~GeneralFormValid(plugin, post)
    /\ context["general_processes"] = List(post.processes)

\* the (service, process) pairs GeneralConfigAction offers for plugin p
OfferedPairs(p) ==
    UNION {{<<node_processes(p)[i][1], node_processes(p)[i][2][j]>> :
               j \in 1..Len(node_processes(p)[i][2])} :
           i \in 1..Len(node_processes(p))}

\* C10: when the one selected entry is the choice offered for a (service,
\* process) pair, is_valid enables exactly that service and handle passes
\* exactly that process name to create; the process list handle sends is as
\* long as general_processes; an entry without a service part and a process
\* part makes handle return False and send nothing.
C10_EncodingRoundTrips ==
    /\ Validated =>
          \A pair \in OfferedPairs(plugin) :
             SelectedEntries = <<pair[1] \o ":" \o pair[2]>>
                 => enabled_services = {pair[1]}
    /\ (pc = "handled" /\ create_calls # <<>>) =>
          /\ Len(create_calls[1].processes) = Len(SelectedEntries)
          /\ \A pair \in OfferedPairs(plugin) :
                SelectedEntries = <<pair[1] \o ":" \o pair[2]>>
                    => create_calls[1].processes = <<pair[2]>>
    /\ (pc = "handled" /\ \E e \in Range(SelectedEntries) : ~Contains(e, ":")) =>
          create_calls = <<>> /\ ret.val = "False"

====
